---- MODULE Spec2Model ----
(***************************************************************************)
(* Backoff strategies (resilience/backoff.py) and the retry decorator      *)
(* (resilience/retry.py).                                                  *)
(*                                                                         *)
(* Wait times are modelled as integers (seconds on an integer grid); the  *)
(* code only compares, shifts and passes them on, so the grid loses no    *)
(* branch of the code.  Python integers are unbounded, so no width is     *)
(* modelled for `base << counter`.                                         *)
(*                                                                         *)
(* Three specifications share the variables:                               *)
(*   BackoffSpec  a strategy object from which sequences (generators) are *)
(*                started and consumed directly, as test_backoff.py does; *)
(*   Spec         a RetryOnException decorator wrapping a scripted        *)
(*                operation, as test_retry.py does; FairSpec is Spec with *)
(*                the fairness of a thread that keeps running;            *)
(*   RaceSpec     two threads that each consume a sequence started from   *)
(*                the same ExponentialBackoff, one bytecode-level step of *)
(*                the counter update at a time.                           *)
(***************************************************************************)
EXTENDS Integers, Sequences, FiniteSets, TLC

(***************************************************************************)
(* Bounds of the model.                                                    *)
(***************************************************************************)
MaxBase == 3            \* base ranges over 0..MaxBase
MaxCounter == 4         \* a strategy's counter is driven up to this value
MaxSeqs == 2            \* generators started from one ExponentialBackoff in BackoffSpec
MaxJitterSeqs == 1      \* generators started from one ExponentialBackoffWithJitter
MaxMaxRetries == 3      \* max_retries ranges over 0..MaxMaxRetries
MaxLimit == 2           \* a defective (finite) strategy yields 0..MaxLimit values
MaxInvocations == 2     \* invocations of the wrapped function in one behaviour

\* Choices for min_wait_seconds and max_wait_seconds (the values the tests use).
WaitChoices == {0, 3, 5, 100}

\* The defaults of the constructors.
DefaultBase == 1
DefaultMinWait == 0
DefaultMaxWait == 30
DefaultMaxRetries == 5

NoLimit == -1           \* marks a strategy whose sequence never ends

VARIABLES
    kind,                \* class of the strategy object
    base,                \* self.base
    min_wait_seconds,    \* self.min_wait_seconds
    max_wait_seconds,    \* self.max_wait_seconds
    random_number_gen,   \* self.random_number_gen (jitter only)
    limit,               \* values a "fixed" test strategy yields, or NoLimit
    counter,             \* ExponentialBackoff.counter (for jitter: the inner object's)
    jitter_counter,      \* ExponentialBackoffWithJitter.counter
    gens,                \* the generator objects started from the strategy
    max_retries,         \* RetryOnException.max_retries
    retry_arg,           \* the constructor's argument retry_on_exceptions
    retry_on_exceptions, \* RetryOnException.retry_on_exceptions
    pc,                  \* position of the current invocation of wrapped()
    attempt_number,      \* attempt_number = i + 1, i the enumerate index of the loop
    wait,                \* loop variable wait
    script,              \* what the wrapped operation does on its 1st, 2nd, ... call
    calls,               \* invocations of the operation in this invocation of wrapped()
    events,              \* what this invocation did, in order
    result,              \* value returned by wrapped()
    error,               \* exception propagated by wrapped()
    invocations,         \* invocations of wrapped() started so far
    threads,             \* per thread: where it is in counter = counter + 1, and the value it read
    increments,          \* executions of counter = counter + 1 completed, over all threads
    overwritten          \* the counter value the latest write replaced

strategyVars == <<kind, base, min_wait_seconds, max_wait_seconds, random_number_gen, limit>>
backoffVars == <<counter, jitter_counter, gens>>
policyVars == <<max_retries, retry_arg, retry_on_exceptions>>
callVars == <<pc, attempt_number, wait, script, calls, events, result, error, invocations>>
raceVars == <<threads, increments, overwritten>>
vars == <<strategyVars, backoffVars, policyVars, callVars, raceVars>>

None == "None"

\* no value yet: wrapped() has returned nothing, propagated nothing, and the
\* loop variable wait is unbound
NoResult == [value |-> None, call |-> 0]

NoError == [kind |-> None, call |-> 0]

Unbound == -1

(***************************************************************************)
(* Python builtins used by the code.                                       *)
(***************************************************************************)
Min(a, b) == IF a <= b THEN a ELSE b

Max(a, b) == IF a >= b THEN a ELSE b

\* variant of Shl: a product with 2 * n instead of a shift by n
ShlTimes(b, n) == b * (2 * n)

\* b << n for an int b >= 0 and n >= 0
Shl(b, n) == b * (2 ^ n)

(***************************************************************************)
(* ExponentialBackoff.__call__: the value yielded when the counter is c.   *)
(***************************************************************************)
\* variant of UpperLimit: the raw value, not capped at max_wait_seconds
UpperLimitUncapped(c) == Shl(base, c)

UpperLimit(c) == Min(Shl(base, c), max_wait_seconds)

\* variant of ExpWait: the capped value, without the floor min_wait_seconds
ExpWaitNoFloor(c) == UpperLimit(c)

ExpWait(c) == Max(min_wait_seconds, UpperLimit(c))

(***************************************************************************)
(* The generator objects.  A generator function's body does not run when  *)
(* it is called: the object is "created"; each next() runs it to the next *)
(* yield ("suspended"), or to its end ("done").  In ExponentialBackoff    *)
(* the statement after the yield, counter = counter + 1, therefore runs   *)
(* when the generator is resumed, not when the value is produced.         *)
(***************************************************************************)
Seqs == 1..MaxSeqs

NoGen == [st |-> "none", out |-> <<>>, under |-> <<>>, draws |-> <<>>]

NewGen == [st |-> "created", out |-> <<>>, under |-> <<>>, draws |-> <<>>]

\* variant of Resumed: the counter is advanced before every yield, the first too
ResumedAlways(st) == counter + 1

\* variant of Resumed: a newly started generator begins again at counter 0
ResumedFresh(st) == IF st = "suspended" THEN counter + 1 ELSE 0

\* the counter after the generator has been resumed from state st
Resumed(st) == IF st = "suspended" THEN counter + 1 ELSE counter

\* The values random_number_gen(0, u) can return.  "uniform" is random.uniform
\* (a + (b-a) * random(), which is 0 for u = 0) sampled at both ends of
\* [0, u); "upper" and "minus_one" are the generators of the tests.
RngDraws(u) ==
    CASE random_number_gen = "uniform" ->
            IF u > 0 THEN {0, u - 1} ELSE {0}
      [] random_number_gen = "upper" -> {u}
      [] random_number_gen = "minus_one" -> {-1}
      [] OTHER -> {0}

\* variant of JitterWait: the draw itself, without the floor min_wait_seconds
JitterWaitNoFloor(r) == r

\* ExponentialBackoffWithJitter.__call__: the value yielded for the draw r
JitterWait(r) == Max(min_wait_seconds, r)

\* variant of JitterCounter: the jitter object counts its resumptions in its own counter
JitterCounterCounting(st) ==
    IF kind = "jitter" /\ st = "suspended" THEN jitter_counter + 1 ELSE jitter_counter

\* ExponentialBackoffWithJitter.counter after a generator has been resumed from
\* state st: __call__ and the inner ExponentialBackoff assign nothing to it
JitterCounter(st) == jitter_counter

\* next(g) on generator g: the successor of g and of the strategy's counter
Resume(g) ==
    LET c == Resumed(gens[g].st) IN
    /\ gens[g].st \in {"created", "suspended"}
    /\ CASE kind = "exponential" ->
              /\ counter' = c
              /\ gens' = [gens EXCEPT ![g].st = "suspended",
                                      ![g].out = Append(@, ExpWait(c))]
         [] kind = "jitter" ->
              /\ counter' = c
              /\ \E r \in RngDraws(ExpWait(c)) :
                    gens' = [gens EXCEPT ![g].st = "suspended",
                                         ![g].under = Append(@, ExpWait(c)),
                                         ![g].draws = Append(@, r),
                                         ![g].out = Append(@, JitterWait(r))]
         [] OTHER ->
              /\ counter' = counter
              /\ IF limit = NoLimit \/ Len(gens[g].out) < limit
                 THEN gens' = [gens EXCEPT ![g].st = "suspended",
                                           ![g].out = Append(@, 0)]
                 ELSE gens' = [gens EXCEPT ![g].st = "done"]
    /\ jitter_counter' = JitterCounter(gens[g].st)

(***************************************************************************)
(* RetryOnException.__init__.  The argument retry_on_exceptions is None or *)
(* a list of exception classes; an except clause matches an exception     *)
(* whose class, or one of its base classes, is listed.                     *)
(***************************************************************************)
ErrorKinds == {"ValueError", "ZeroDivisionError", "FileNotFoundError"}

\* the classes an exception of kind k is an instance of
Mro(k) ==
    CASE k = "ValueError" -> {"ValueError", "Exception"}
      [] k = "ZeroDivisionError" -> {"ZeroDivisionError", "ArithmeticError", "Exception"}
      [] k = "FileNotFoundError" -> {"FileNotFoundError", "OSError", "Exception"}
      [] OTHER -> {k, "Exception"}

\* variant of IsInstance: every exception is caught (except Exception)
IsInstanceOfException(k, classes) == TRUE

IsInstance(k, classes) == Mro(k) \cap classes # {}

NoArg == [given |-> FALSE, types |-> {}]

ListArg(types) == [given |-> TRUE, types |-> types]

\* variant of RetryOnExceptions: only a missing argument gets the default
RetryOnExceptionsIfGiven(arg) ==
    IF arg.given THEN arg.types ELSE {"Exception"}

\* tuple(retry_on_exceptions) if retry_on_exceptions else (Exception,)
RetryOnExceptions(arg) ==
    IF arg.given /\ arg.types # {} THEN arg.types ELSE {"Exception"}

(***************************************************************************)
(* BackoffSpec: sequences started from one strategy object and consumed.   *)
(***************************************************************************)
\* strategy(): a new generator object
StartSequence(g) ==
    /\ g <= (IF kind = "jitter" THEN MaxJitterSeqs ELSE MaxSeqs)
    /\ gens[g].st = "none"
    /\ \A h \in Seqs : h < g => gens[h].st # "none"
    /\ gens' = [gens EXCEPT ![g] = NewGen]
    /\ UNCHANGED <<strategyVars, raceVars, counter, jitter_counter, policyVars, callVars>>

\* next(g), as itertools.islice does
NextValue(g) ==
    /\ Resumed(gens[g].st) <= MaxCounter
    /\ Resume(g)
    /\ UNCHANGED <<strategyVars, raceVars, policyVars, callVars>>

IdleCall ==
    /\ pc = "idle"
    /\ attempt_number = 0
    /\ wait = Unbound
    /\ script = <<>>
    /\ calls = 0
    /\ events = <<>>
    /\ result = NoResult
    /\ error = NoError
    /\ invocations = 0

\* the threads that share the strategy object in RaceSpec
Threads == {1, 2}

\* a thread that is not inside the statement counter = counter + 1
Outside == [pc |-> "outside", read |-> 0]

\* no thread is inside the counter update, and none has been executed
SingleThreaded ==
    /\ threads = [t \in Threads |-> Outside]
    /\ increments = 0
    /\ overwritten = 0

\* ExponentialBackoff(...) or ExponentialBackoffWithJitter(...), just constructed
BackoffInit ==
    /\ kind \in {"exponential", "jitter"}
    /\ base \in 0..MaxBase
    /\ min_wait_seconds \in WaitChoices
    /\ max_wait_seconds \in WaitChoices
    /\ random_number_gen \in IF kind = "jitter" THEN {"uniform", "upper", "minus_one"}
                                                ELSE {None}
    /\ limit = NoLimit
    /\ counter = 0
    /\ jitter_counter = 0
    /\ gens = [g \in Seqs |-> NoGen]
    /\ max_retries = DefaultMaxRetries
    /\ retry_arg = NoArg
    /\ retry_on_exceptions = RetryOnExceptions(NoArg)
    /\ IdleCall
    /\ SingleThreaded

BackoffNext == \E g \in Seqs : StartSequence(g) \/ NextValue(g)

BackoffSpec == BackoffInit /\ [][BackoffNext]_vars

(***************************************************************************)
(* RaceSpec: two threads, each iterating over its own generator started    *)
(* from one shared ExponentialBackoff, as two concurrent invocations of a  *)
(* function decorated with the same RetryOnException do.  The interpreter  *)
(* may switch threads between the load of self.counter and the store of    *)
(* the sum, so the statement counter = counter + 1 is two steps.  Thread t *)
(* owns gens[t].                                                           *)
(***************************************************************************)
\* thread t: self.backoff_strategy() makes its generator
RaceStart(t) ==
    /\ gens[t].st = "none"
    /\ gens' = [gens EXCEPT ![t] = NewGen]
    /\ UNCHANGED <<strategyVars, counter, jitter_counter, policyVars, callVars, raceVars>>

\* thread t: upper_limit is computed from the counter as it is now, and yielded
RaceYield(t) ==
    /\ \/ gens[t].st = "created"
       \/ gens[t].st = "running" /\ threads[t].pc = "written"
    /\ gens' = [gens EXCEPT ![t].st = "suspended",
                            ![t].out = Append(@, ExpWait(counter))]
    /\ threads' = [threads EXCEPT ![t] = Outside]
    /\ UNCHANGED <<strategyVars, counter, jitter_counter, policyVars, callVars,
                   increments, overwritten>>

\* thread t resumes its generator: the right-hand side self.counter + 1 loads self.counter
RaceRead(t) ==
    /\ gens[t].st = "suspended"
    /\ increments + Cardinality({u \in Threads : threads[u].pc = "read"}) < MaxCounter
    /\ gens' = [gens EXCEPT ![t].st = "running"]
    /\ threads' = [threads EXCEPT ![t] = [pc |-> "read", read |-> counter]]
    /\ UNCHANGED <<strategyVars, counter, jitter_counter, policyVars, callVars,
                   increments, overwritten>>

\* variant of RaceWrite: the update is atomic, one more than the counter holds now
RaceWriteAtomic(t) ==
    /\ threads[t].pc = "read"
    /\ counter' = counter + 1
    /\ increments' = increments + 1
    /\ overwritten' = counter
    /\ threads' = [threads EXCEPT ![t].pc = "written"]
    /\ UNCHANGED <<strategyVars, jitter_counter, gens, policyVars, callVars>>

\* thread t: self.counter = <the value loaded> + 1
RaceWrite(t) ==
    /\ threads[t].pc = "read"
    /\ counter' = threads[t].read + 1
    /\ increments' = increments + 1
    /\ overwritten' = counter
    /\ threads' = [threads EXCEPT ![t].pc = "written"]
    /\ UNCHANGED <<strategyVars, jitter_counter, gens, policyVars, callVars>>

\* one ExponentialBackoff(...), shared by the threads
RaceInit ==
    /\ kind = "exponential"
    /\ base \in 0..MaxBase
    /\ min_wait_seconds \in WaitChoices
    /\ max_wait_seconds \in WaitChoices
    /\ random_number_gen = None
    /\ limit = NoLimit
    /\ counter = 0
    /\ jitter_counter = 0
    /\ gens = [g \in Seqs |-> NoGen]
    /\ max_retries = DefaultMaxRetries
    /\ retry_arg = NoArg
    /\ retry_on_exceptions = RetryOnExceptions(NoArg)
    /\ IdleCall
    /\ SingleThreaded

RaceNext ==
    \E t \in Threads : RaceStart(t) \/ RaceYield(t) \/ RaceRead(t) \/ RaceWrite(t)

RaceSpec == RaceInit /\ [][RaceNext]_vars

(***************************************************************************)
(* The wrapped operation.  It is opaque to the decorator; here it follows  *)
(* a script, as WorksOnNthAttempt does in test_retry.py: on its n-th call  *)
(* it returns a result or raises an exception of the scripted kind, both   *)
(* tagged with n, and past the end of the script it repeats the last       *)
(* entry.  Once it has worked it keeps working (WorksOnNthAttempt leaves   *)
(* its attempts at n), which the decorator never observes: it calls the    *)
(* operation no more after a normal return.                                *)
(***************************************************************************)
Outcomes == {"ok"} \cup ErrorKinds

ScriptLen == MaxMaxRetries

Scripts ==
    {sc \in [1..ScriptLen -> Outcomes] :
        \A n \in 1..(ScriptLen - 1) : sc[n] = "ok" => sc[n + 1] = "ok"}

OutcomeAt(sc, n) == sc[Min(n, Len(sc))]

Returned(n) == [value |-> "result", call |-> n]

Raised(k, n) == [kind |-> k, call |-> n]

\* Exception("Critical bug in RetryOnException. This line should never be executed.")
CriticalBug == [kind |-> "Exception", call |-> 0]

\* the loop of an invocation is cut off after this many iterations
MaxAttempts == MaxMaxRetries + 1

(***************************************************************************)
(* RetryOnException.__call__.wrapped, one action per step.                 *)
(*   idle        no invocation in progress                                 *)
(*   loop        at the for statement, about to take the next (i, wait)    *)
(*   attempting  in the try, about to call func           (Attempting)     *)
(*   waiting     in the except, about to call time.sleep  (WaitingToRetry) *)
(*   succeeded   returned func's result                   (Succeeded)      *)
(*   failed      propagated an exception                  (Failed)         *)
(***************************************************************************)
\* variant of Call: starting the sequence puts the strategy's counter back to 0
CallResettingCounter ==
    /\ pc = "idle"
    /\ invocations < MaxInvocations
    /\ invocations' = invocations + 1
    /\ gens' = [gens EXCEPT ![1] = NewGen]
    /\ counter' = 0
    /\ script' \in Scripts
    /\ pc' = "loop"
    /\ UNCHANGED <<strategyVars, raceVars, jitter_counter, policyVars,
                   attempt_number, wait, calls, events, result, error>>

\* wrapped(*args, **kwargs) is called: self.backoff_strategy() makes the generator
Call ==
    /\ pc = "idle"
    /\ invocations < MaxInvocations
    /\ invocations' = invocations + 1
    /\ gens' = [gens EXCEPT ![1] = NewGen]
    /\ script' \in Scripts
    /\ pc' = "loop"
    /\ UNCHANGED <<strategyVars, raceVars, counter, jitter_counter, policyVars,
                   attempt_number, wait, calls, events, result, error>>

\* variant of Exhausted: wrapped falls off its end and returns nothing
ExhaustedSilently ==
    /\ pc' = "succeeded"
    /\ UNCHANGED <<result, error>>

\* the for loop ends because the sequence ended: the raise after the loop
Exhausted ==
    /\ error' = CriticalBug
    /\ pc' = "failed"
    /\ result' = result

\* variant of LoopNext: no value is taken from the sequence for the first attempt
LoopNextLazy ==
    /\ pc = "loop"
    /\ attempt_number < MaxAttempts
    /\ IF attempt_number = 0
       THEN /\ attempt_number' = 1
            /\ pc' = "attempting"
            /\ UNCHANGED <<backoffVars, wait, result, error>>
       ELSE /\ Resume(1)
            /\ IF gens'[1].st = "suspended"
               THEN /\ attempt_number' = attempt_number + 1
                    /\ wait' = gens'[1].out[Len(gens'[1].out)]
                    /\ pc' = "attempting"
                    /\ UNCHANGED <<result, error>>
               ELSE /\ Exhausted
                    /\ UNCHANGED <<attempt_number, wait>>
    /\ UNCHANGED <<strategyVars, raceVars, policyVars, script, calls, events, invocations>>

\* for i, wait in enumerate(...): the next pair, or the end of the sequence
LoopNext ==
    /\ pc = "loop"
    /\ attempt_number < MaxAttempts
    /\ Resume(1)
    /\ IF gens'[1].st = "suspended"
       THEN /\ attempt_number' = attempt_number + 1
            /\ wait' = gens'[1].out[Len(gens'[1].out)]
            /\ pc' = "attempting"
            /\ UNCHANGED <<result, error>>
       ELSE /\ Exhausted
            /\ UNCHANGED <<attempt_number, wait>>
    /\ UNCHANGED <<strategyVars, raceVars, policyVars, script, calls, events, invocations>>

\* variant of ReturnResult: func's result is dropped and the loop goes on
ReturnResultDiscarded(n) ==
    /\ pc' = "loop"
    /\ UNCHANGED <<result, error>>

\* return func(*args, **kwargs), func having returned on its n-th call
ReturnResult(n) ==
    /\ result' = Returned(n)
    /\ pc' = "succeeded"
    /\ error' = error

\* variant of BudgetSpent: the enumerate index i is compared, not attempt_number
BudgetSpentIndex == attempt_number - 1 = max_retries

\* variant of BudgetSpent: the budget is spent once max_retries is reached or passed
BudgetSpentAtLeast == attempt_number >= max_retries

\* variant of BudgetSpent: the budget is never checked
BudgetSpentNever == FALSE

\* if attempt_number == self.max_retries
BudgetSpent == attempt_number = max_retries

\* what the try/except does with the outcome o of call n of func
AfterAttempt(o, n) ==
    \/ /\ o = "ok"
       /\ ReturnResult(n)
    \/ /\ o # "ok"
       /\ IsInstance(o, retry_on_exceptions)
       /\ BudgetSpent
       /\ error' = Raised(o, n)
       /\ pc' = "failed"
       /\ result' = result
    \/ /\ o # "ok"
       /\ IsInstance(o, retry_on_exceptions)
       /\ ~BudgetSpent
       /\ pc' = "waiting"
       /\ UNCHANGED <<result, error>>
    \/ /\ o # "ok"
       /\ ~IsInstance(o, retry_on_exceptions)
       /\ error' = Raised(o, n)
       /\ pc' = "failed"
       /\ result' = result

\* try: return func(*args, **kwargs) except self.retry_on_exceptions as e: ...
Attempt ==
    /\ pc = "attempting"
    /\ calls' = calls + 1
    /\ events' = Append(events, <<"attempt", attempt_number, OutcomeAt(script, calls + 1)>>)
    /\ AfterAttempt(OutcomeAt(script, calls + 1), calls + 1)
    /\ UNCHANGED <<strategyVars, raceVars, backoffVars, policyVars, attempt_number, wait,
                   script, invocations>>

\* variant of Sleep: the pause is attempt_number seconds, not wait
SleepAttemptNumber ==
    /\ pc = "waiting"
    /\ events' = Append(events, <<"sleep", attempt_number, attempt_number>>)
    /\ pc' = "loop"
    /\ UNCHANGED <<strategyVars, raceVars, backoffVars, policyVars, attempt_number, wait,
                   script, calls, result, error, invocations>>

\* time.sleep(wait)
Sleep ==
    /\ pc = "waiting"
    /\ events' = Append(events, <<"sleep", attempt_number, wait>>)
    /\ pc' = "loop"
    /\ UNCHANGED <<strategyVars, raceVars, backoffVars, policyVars, attempt_number, wait,
                   script, calls, result, error, invocations>>

\* variant of Leave: the attempt number is kept for the next invocation
LeaveKeepingAttemptNumber ==
    /\ pc \in {"succeeded", "failed"}
    /\ gens' = [gens EXCEPT ![1] = NoGen]
    /\ pc' = "idle"
    /\ wait' = Unbound
    /\ script' = <<>>
    /\ calls' = 0
    /\ events' = <<>>
    /\ result' = NoResult
    /\ error' = NoError
    /\ UNCHANGED <<strategyVars, raceVars, counter, jitter_counter, policyVars, invocations,
                   attempt_number>>

\* the frame of wrapped is left: its generator is discarded, never resumed
Leave ==
    /\ pc \in {"succeeded", "failed"}
    /\ gens' = [gens EXCEPT ![1] = NoGen]
    /\ pc' = "idle"
    /\ attempt_number' = 0
    /\ wait' = Unbound
    /\ script' = <<>>
    /\ calls' = 0
    /\ events' = <<>>
    /\ result' = NoResult
    /\ error' = NoError
    /\ UNCHANGED <<strategyVars, raceVars, counter, jitter_counter, policyVars, invocations>>

\* the strategies a decorator is given: the two classes with their default
\* arguments, _NoWait of test_retry.py, and a strategy that breaks the
\* interface's contract by yielding only `limit` values
RetryStrategies ==
    {[kind |-> "exponential", rng |-> None, limit |-> NoLimit],
     [kind |-> "jitter", rng |-> "uniform", limit |-> NoLimit]}
    \cup {[kind |-> "fixed", rng |-> None, limit |-> l] : l \in {NoLimit} \cup 0..MaxLimit}

\* the arguments retry_on_exceptions of the decorators
RetryArgs == {NoArg, ListArg({}), ListArg({"ValueError", "ZeroDivisionError"})}

\* RetryOnException(max_retries, retry_on_exceptions, backoff_strategy), just constructed
Init ==
    /\ \E s \in RetryStrategies :
          /\ kind = s.kind
          /\ random_number_gen = s.rng
          /\ limit = s.limit
    /\ base = DefaultBase
    /\ min_wait_seconds = DefaultMinWait
    /\ max_wait_seconds = DefaultMaxWait
    /\ counter = 0
    /\ jitter_counter = 0
    /\ gens = [g \in Seqs |-> NoGen]
    /\ max_retries \in (-1)..MaxMaxRetries
    /\ retry_arg \in RetryArgs
    /\ retry_on_exceptions = RetryOnExceptions(retry_arg)
    /\ IdleCall
    /\ SingleThreaded

Next == Call \/ LoopNext \/ Attempt \/ Sleep \/ Leave

Spec == Init /\ [][Next]_vars

\* the calling thread keeps running: a step that can be taken is taken
FairSpec == Spec /\ WF_vars(Next)

(***************************************************************************)
(* Vocabulary of the properties.                                           *)
(***************************************************************************)
Last(s) == s[Len(s)]

Terminal == pc \in {"succeeded", "failed"}

\* the strategy's sequence has at least n values
Supplies(n) == limit = NoLimit \/ limit >= n

\* the scripted operation raises a retryable exception on its n-th call
FailsRetryably(n) ==
    /\ OutcomeAt(script, n) # "ok"
    /\ Mro(OutcomeAt(script, n)) \cap retry_on_exceptions # {}

\* the scripted operation raises a non-retryable exception on its n-th call
FailsFatally(n) ==
    /\ OutcomeAt(script, n) # "ok"
    /\ Mro(OutcomeAt(script, n)) \cap retry_on_exceptions = {}

SleepCount == Cardinality({x \in 1..Len(events) : events[x][1] = "sleep"})

\* C1: an operation that fails retryably on attempts 1..k-1 and returns on
\* attempt k <= max_retries is invoked exactly k times (never more while the
\* invocation runs, exactly k when it has ended), the invocation returns the
\* result of attempt k, and the last thing it did is that attempt: k-1 waits,
\* none after the success.  (The strategy supplies the k values the loop takes.)
C1_SucceedsOnAttemptK ==
    \A k \in 1..ScriptLen :
        ( /\ pc # "idle"
          /\ k <= max_retries
          /\ Supplies(k)
          /\ script[k] = "ok"
          /\ \A j \in 1..(k - 1) : FailsRetryably(j) )
        => /\ calls <= k
           /\ Terminal =>
                /\ pc = "succeeded"
                /\ calls = k
                /\ result = Returned(k)
                /\ error = NoError
                /\ Last(events) = <<"attempt", k, "ok">>
                /\ SleepCount = k - 1

C1_Witness ==
    /\ pc = "succeeded"
    /\ max_retries = 3
    /\ calls = 3
    /\ script[1] = "ZeroDivisionError"
    /\ script[2] = "ValueError"
    /\ result = Returned(3)

\* C2: with max_retries >= 1, an operation that fails retryably on every
\* attempt is invoked exactly max_retries times, and the invocation ends by
\* propagating the exception of the last attempt: its kind and its tag are
\* those of attempt max_retries.
C2_ExhaustedRaisesLast ==
    ( /\ pc # "idle"
      /\ max_retries >= 1
      /\ Supplies(max_retries)
      /\ \A j \in 1..max_retries : FailsRetryably(j) )
    => /\ calls <= max_retries
       /\ Terminal =>
            /\ pc = "failed"
            /\ calls = max_retries
            /\ error = [kind |-> OutcomeAt(script, max_retries), call |-> max_retries]
            /\ result = NoResult

C2_Witness ==
    /\ pc = "failed"
    /\ max_retries = 3
    /\ calls = 3
    /\ script = <<"ValueError", "ZeroDivisionError", "FileNotFoundError">>
    /\ error = [kind |-> "FileNotFoundError", call |-> 3]

\* C3: when attempt j (j = 1, or j <= max_retries after j-1 retryable
\* failures) raises an exception of a kind that is not retryable, the
\* invocation ends with exactly j invocations of the operation, propagates that
\* exception, and the failed attempt is the last thing it did (no wait after it).
C3_NonRetryablePropagates ==
    \A j \in 1..ScriptLen :
        ( /\ pc # "idle"
          /\ j = 1 \/ j <= max_retries
          /\ Supplies(j)
          /\ FailsFatally(j)
          /\ \A h \in 1..(j - 1) : FailsRetryably(h) )
        => /\ calls <= j
           /\ Terminal =>
                /\ pc = "failed"
                /\ calls = j
                /\ error = [kind |-> script[j], call |-> j]
                /\ Last(events) = <<"attempt", j, script[j]>>
                /\ SleepCount = j - 1

C3_Witness ==
    /\ pc = "failed"
    /\ max_retries = 3
    /\ calls = 2
    /\ script[1] = "ValueError"
    /\ error = [kind |-> "FileNotFoundError", call |-> 2]
    /\ Last(events)[1] = "attempt"

\* with max_retries >= 1 and a sequence that never ends: at most max_retries
\* calls, and the outcome of the invocation is the outcome of its last attempt
C4_Bounded ==
    (max_retries >= 1 /\ limit = NoLimit) =>
        /\ calls <= max_retries
        /\ pc = "succeeded" => result = Returned(calls) /\ script[calls] = "ok"
        /\ pc = "failed" => /\ error # CriticalBug
                            /\ error = [kind |-> OutcomeAt(script, calls), call |-> calls]

\* C4: with max_retries >= 1 and a strategy whose sequence never ends, the
\* operation is invoked at most max_retries times, an invocation that has
\* started ends, and it ends with the result of its last attempt or with the
\* exception of its last attempt, never with the internal error.
C4_Terminates ==
    /\ []C4_Bounded
    /\ (pc = "loop" /\ max_retries >= 1 /\ limit = NoLimit) ~> Terminal

C4_Witness ==
    /\ pc = "failed"
    /\ kind = "jitter"
    /\ max_retries = 2
    /\ calls = 2
    /\ invocations = 2

\* the n-th value (n counted from 0) that the formula of the documentation gives
Clamped(n) ==
    LET raw == base * (2 ^ n)
        capped == IF raw <= max_wait_seconds THEN raw ELSE max_wait_seconds
    IN  IF capped >= min_wait_seconds THEN capped ELSE min_wait_seconds

\* only the first generator has been started from the strategy object
SingleSequence == \A g \in Seqs : g # 1 => gens[g].st = "none"

\* C5: the values of the only sequence started from a fresh ExponentialBackoff
\* with min_wait_seconds <= max_wait_seconds are, for n = 0, 1, ...,
\* max(min_wait_seconds, min(base * 2^n, max_wait_seconds)); with base 1 that is
\* 1,2,4,8,16 for bounds 0 and 100 and 3,3,4,5,5 for bounds 3 and 5, and with
\* base 3 and bounds 0 and 100 it is 3,6,12,24,48.
C5_NthValueIsClamped ==
    ( /\ kind = "exponential"
      /\ min_wait_seconds <= max_wait_seconds
      /\ SingleSequence )
    => /\ \A n \in 1..Len(gens[1].out) : gens[1].out[n] = Clamped(n - 1)
       /\ \A n \in 1..Min(Len(gens[1].out), 5) :
            /\ (base = 1 /\ min_wait_seconds = 0 /\ max_wait_seconds = 100)
                    => gens[1].out[n] = <<1, 2, 4, 8, 16>>[n]
            /\ (base = 1 /\ min_wait_seconds = 3 /\ max_wait_seconds = 5)
                    => gens[1].out[n] = <<3, 3, 4, 5, 5>>[n]
            /\ (base = 3 /\ min_wait_seconds = 0 /\ max_wait_seconds = 100)
                    => gens[1].out[n] = <<3, 6, 12, 24, 48>>[n]

C5_Witness ==
    /\ kind = "exponential"
    /\ base = 1
    /\ min_wait_seconds = 3
    /\ max_wait_seconds = 5
    /\ SingleSequence
    /\ gens[1].out = <<3, 3, 4, 5, 5>>

\* C6: every value produced by any sequence of an ExponentialBackoff with
\* min_wait_seconds <= max_wait_seconds lies in [min_wait_seconds,
\* max_wait_seconds], whatever the number of sequences started and the order in
\* which their values are requested.
C6_ValuesWithinBounds ==
    (kind = "exponential" /\ min_wait_seconds <= max_wait_seconds)
    => \A g \in Seqs : \A n \in 1..Len(gens[g].out) :
            /\ min_wait_seconds <= gens[g].out[n]
            /\ gens[g].out[n] <= max_wait_seconds

C6_Witness ==
    /\ kind = "exponential"
    /\ base = 3
    /\ min_wait_seconds = 3
    /\ max_wait_seconds = 5
    /\ gens[1].out = <<3, 5, 5>>
    /\ gens[2].out = <<3, 5>>

\* C7: for an ExponentialBackoffWithJitter with 0 <= min_wait_seconds <=
\* max_wait_seconds, a value v emitted for a draw r with 0 <= r < u, u the value
\* the inner ExponentialBackoff produced for it, is max(min_wait_seconds, r):
\* it is at least min_wait_seconds, it is below u unless the draw was below
\* min_wait_seconds (then it is min_wait_seconds), and it is at most
\* max_wait_seconds; u itself is the inner strategy's clamped value.
C7_JitterValueInRange ==
    ( /\ kind = "jitter"
      /\ 0 <= min_wait_seconds
      /\ min_wait_seconds <= max_wait_seconds )
    => \A g \in Seqs : \A n \in 1..Len(gens[g].out) :
        LET u == gens[g].under[n]
            r == gens[g].draws[n]
            v == gens[g].out[n]
        IN  /\ SingleSequence => u = Clamped(n - 1)
            /\ min_wait_seconds <= u /\ u <= max_wait_seconds
            /\ (0 <= r /\ r < u) =>
                  /\ v = (IF r >= min_wait_seconds THEN r ELSE min_wait_seconds)
                  /\ min_wait_seconds <= v
                  /\ r >= min_wait_seconds => v < u
                  /\ r < min_wait_seconds => v = min_wait_seconds
                  /\ v <= max_wait_seconds

C7_Witness ==
    /\ kind = "jitter"
    /\ random_number_gen = "uniform"
    /\ min_wait_seconds = 3
    /\ max_wait_seconds = 5
    /\ base = 1
    /\ Len(gens[1].out) = 5
    /\ gens[1].draws[2] = 0 /\ gens[1].out[2] = 3
    /\ gens[1].draws[5] = 4 /\ gens[1].out[5] = 4 /\ gens[1].under[5] = 5

\* C8: within each sequence of an ExponentialBackoff with base >= 1 and
\* min_wait_seconds <= max_wait_seconds, every value is at least the value
\* before it, and after a value equal to max_wait_seconds every later value of
\* the sequence equals max_wait_seconds.
C8_NonDecreasingThenConstant ==
    ( /\ kind = "exponential"
      /\ base >= 1
      /\ min_wait_seconds <= max_wait_seconds )
    => \A g \in Seqs : \A m, n \in 1..Len(gens[g].out) :
            m < n =>
                /\ gens[g].out[m] <= gens[g].out[n]
                /\ gens[g].out[m] = max_wait_seconds
                        => gens[g].out[n] = max_wait_seconds

C8_Witness ==
    /\ kind = "exponential"
    /\ base = 1
    /\ min_wait_seconds = 0
    /\ max_wait_seconds = 5
    /\ gens[1].out = <<1, 2, 5>>
    /\ gens[2].out = <<1, 4, 5>>

\* an exception of kind o is caught by the except clause
Retryable(o) == o # "ok" /\ Mro(o) \cap retry_on_exceptions # {}

IsAttempt(x) == events[x][1] = "attempt"

IsSleep(x) == events[x][1] = "sleep"

\* C9: with max_retries >= 1 the steps of one invocation, in order, are attempt 1,
\* wait 1, attempt 2, wait 2, ...: a wait comes only directly after a retryable
\* failure of an attempt numbered below max_retries and blocks for the value the
\* invocation's sequence produced for that attempt; something follows an attempt
\* only if it failed retryably below the budget, and then it is a wait; after a
\* wait the invocation is on its way to the next attempt (unless the sequence
\* has ended); after any other attempt it is Succeeded or Failed, so an ended
\* invocation with a attempts has performed a-1 waits.
C9_StateMachine ==
    (pc # "idle" /\ max_retries >= 1) =>
        /\ Len(events) = calls + SleepCount
        /\ \A x \in 1..Len(events) :
              /\ IsAttempt(x) <=> x % 2 = 1
              /\ events[x][2] = (x + 1) \div 2
              /\ IsSleep(x) =>
                    /\ IsAttempt(x - 1)
                    /\ Retryable(events[x - 1][3])
                    /\ events[x][2] < max_retries
                    /\ events[x][3] = gens[1].out[events[x][2]]
                    /\ x = Len(events) =>
                          \/ pc \in {"loop", "attempting"}
                          \/ limit # NoLimit /\ pc = "failed" /\ error = CriticalBug
              /\ IsAttempt(x) =>
                    /\ events[x][3] = OutcomeAt(script, events[x][2])
                    /\ x < Len(events) =>
                          /\ Retryable(events[x][3])
                          /\ events[x][2] < max_retries
                          /\ IsSleep(x + 1)
                    /\ x = Len(events) =>
                          pc = (CASE events[x][3] = "ok" -> "succeeded"
                                  [] ~Retryable(events[x][3]) -> "failed"
                                  [] events[x][2] = max_retries -> "failed"
                                  [] OTHER -> "waiting")
        /\ (Terminal /\ error # CriticalBug) =>
              /\ calls >= 1
              /\ SleepCount = calls - 1
              /\ IsAttempt(Len(events))
        /\ events = <<>> =>
              \/ pc \in {"loop", "attempting"}
              \/ limit = 0 /\ pc = "failed" /\ error = CriticalBug

C9_Witness ==
    /\ pc = "succeeded"
    /\ kind = "exponential"
    /\ max_retries = 3
    /\ events = << <<"attempt", 1, "ValueError">>, <<"sleep", 1, 1>>,
                   <<"attempt", 2, "ZeroDivisionError">>, <<"sleep", 2, 2>>,
                   <<"attempt", 3, "ok">> >>

\* C10: when the strategy's sequence ends before the invocation has returned a
\* result or propagated an exception of the operation, the invocation ends
\* Failed with the internal error, having returned nothing; and the internal
\* error is raised in that situation only, after one attempt per value the
\* sequence had.
C10_ExhaustedSequenceRaises ==
    /\ (pc # "idle" /\ gens[1].st = "done") =>
          /\ pc = "failed"
          /\ error = CriticalBug
          /\ result = NoResult
    /\ error = CriticalBug =>
          /\ gens[1].st = "done"
          /\ limit # NoLimit
          /\ calls = limit

C10_Witness ==
    /\ pc = "failed"
    /\ error = CriticalBug
    /\ limit = 2
    /\ max_retries = 3
    /\ calls = 2
    /\ Last(events)[1] = "sleep"

\* the values produced so far by all sequences of the strategy object
Produced(g) == Len(gens[g].out)

RECURSIVE SumUpTo(_, _)
SumUpTo(f(_), n) == IF n = 0 THEN 0 ELSE f(n) + SumUpTo(f, n - 1)

TotalProduced == SumUpTo(Produced, MaxSeqs)

\* the resumptions so far: every value but the first of each sequence
ResumptionsOf(g) == IF Produced(g) = 0 THEN 0 ELSE Produced(g) - 1

TotalResumptions == SumUpTo(ResumptionsOf, MaxSeqs)

\* C11: every newly started sequence of an ExponentialBackoff begins at
\* max(min_wait_seconds, min(base * 2^0, max_wait_seconds)), however many values
\* were taken from sequences started earlier from the same object.
C11_NewSequenceStartsOver ==
    kind = "exponential" =>
        \A g \in Seqs : Produced(g) >= 1 => gens[g].out[1] = Clamped(0)

\* C12 as stated: the counter equals the number of values produced so far by
\* all sequences of the object.
C12_CounterCountsValues ==
    kind = "exponential" => counter = TotalProduced

\* C12: the counter of an ExponentialBackoff starts at 0 and is advanced by
\* exactly 1 each time a sequence that has already produced a value is asked
\* for its next one (the increment follows the yield, so it runs on
\* resumption): in every state reached by requesting values one after the
\* other, the counter equals the number of values produced so far by all
\* sequences minus the number of sequences that have produced a value.
C12_CounterCountsResumptions ==
    kind = "exponential" =>
        /\ counter = TotalResumptions
        /\ TotalProduced = 0 => counter = 0

C12_Witness ==
    /\ kind = "exponential"
    /\ Produced(1) = 3
    /\ Produced(2) = 2
    /\ counter = 3

C14_ValuesTakenEqualWaits ==
    (Terminal /\ error # CriticalBug) => Produced(1) = SleepCount

\* C14: the wrapper takes one value from the sequence before every attempt (the
\* for statement draws the pair (i, wait) before func is called): the values
\* taken equal the attempts begun, so an invocation that ends on its first
\* attempt has taken exactly one value and waited on none, and an invocation
\* that ends Succeeded or Failed with the operation's exception has taken one
\* value more than it has performed waits.
C14_ValueTakenPerAttempt ==
    pc # "idle" =>
        /\ Produced(1) = attempt_number
        /\ pc = "attempting" => Produced(1) = calls + 1
        /\ (Terminal /\ error # CriticalBug) =>
              /\ Produced(1) = calls
              /\ Produced(1) = SleepCount + 1

C14_Witness ==
    /\ pc = "succeeded"
    /\ calls = 1
    /\ Produced(1) = 1
    /\ SleepCount = 0

\* C15: the attempt number belongs to the invocation: in every invocation,
\* the first as well as a later one of the same decorator and strategy object,
\* the attempts are numbered from 1, at most max_retries of them are made
\* (max_retries >= 1), and the invocation gives up on a retryable failure
\* exactly at its own attempt max_retries, whatever the strategy's counter is.
C15_AttemptNumberPerInvocation ==
    pc # "idle" =>
        /\ attempt_number = calls + (IF pc = "attempting" THEN 1 ELSE 0)
        /\ \A x \in 1..Len(events) :
              IsAttempt(x) => events[x][2] = Cardinality({y \in 1..x : IsAttempt(y)})
        /\ max_retries >= 1 =>
              /\ calls <= max_retries
              /\ pc = "waiting" => calls < max_retries
              /\ (pc = "failed" /\ error # CriticalBug /\ Retryable(error.kind)) =>
                    /\ calls = max_retries
                    /\ error.call = max_retries

C15_Witness ==
    /\ kind = "exponential"
    /\ invocations = 2
    /\ pc = "failed"
    /\ max_retries = 3
    /\ calls = 3
    /\ counter = 4
    /\ error.call = 3

\* C16: the counter update is not synchronized: a thread stores the value it
\* loaded plus one, whatever the counter holds at the time of the store, and the
\* counter never exceeds the number of updates executed.  With two threads an
\* interleaving is reachable (C16_Witness) in which an update is lost and the
\* counter is written back to a smaller value than it held.
C16_UnsynchronizedUpdate ==
    [][ /\ \A t \in Threads :
              (threads[t].pc = "read" /\ threads'[t].pc = "written") =>
                  /\ counter' = threads[t].read + 1
                  /\ increments' = increments + 1
        /\ counter' <= increments' ]_vars

C16_Witness ==
    /\ counter < increments
    /\ counter < overwritten
    /\ \A t \in Threads : threads[t].pc # "read"

\* C17: the counter field of an ExponentialBackoffWithJitter is 0 after
\* construction and stays 0 whatever sequences are started and values produced;
\* every emitted value is max(min_wait_seconds, r) for a draw r of
\* random_number_gen(0, w), w the value of the inner ExponentialBackoff at one
\* of the values its counter has taken: the field plays no part in it.
C17_JitterCounterIsDead ==
    kind = "jitter" =>
        /\ jitter_counter = 0
        /\ \A g \in Seqs : \A n \in 1..Produced(g) :
              /\ gens[g].out[n] = Max(min_wait_seconds, gens[g].draws[n])
              /\ gens[g].draws[n] \in RngDraws(gens[g].under[n])
              /\ \E c \in 0..counter : gens[g].under[n] = Clamped(c)

C17_Witness ==
    /\ kind = "jitter"
    /\ Produced(1) = 3
    /\ counter = 2
    /\ jitter_counter = 0

\* C18: with base = 0 and 0 <= min_wait_seconds <= max_wait_seconds an
\* ExponentialBackoff ends no sequence with an error, and every value it
\* produces, at every counter value, is min_wait_seconds.
C18_BaseZeroYieldsMinWait ==
    (kind = "exponential" /\ base = 0
        /\ 0 <= min_wait_seconds /\ min_wait_seconds <= max_wait_seconds) =>
        \A g \in Seqs :
            /\ gens[g].st \in {"none", "created", "suspended"}
            /\ \A n \in 1..Produced(g) : gens[g].out[n] = min_wait_seconds

C18_Witness ==
    /\ kind = "exponential"
    /\ base = 0
    /\ min_wait_seconds = 3
    /\ max_wait_seconds = 5
    /\ gens[1].out = <<3, 3, 3>>
    /\ counter = 2

\* the operation of the current invocation raises a retryable exception on every call
AlwaysFailsRetryably ==
    /\ script # <<>>
    /\ \A n \in 1..Len(script) : Retryable(script[n])

\* C19: with max_retries <= 0 the test attempt_number == max_retries is never
\* true (attempt numbers start at 1), so for an operation that raises a
\* retryable exception on every call the invocation never ends: it is at the
\* loop head, attempting or waiting, every failed attempt is followed by a
\* wait, and the calls pass max_retries.  (The strategy's sequence does not end.)
C19_NeverGivesUp ==
    (max_retries <= 0 /\ limit = NoLimit /\ AlwaysFailsRetryably) =>
        /\ pc \in {"loop", "attempting", "waiting"}
        /\ attempt_number >= 1 => ~BudgetSpent
        /\ result = NoResult
        /\ error = NoError
        /\ pc = "loop" => SleepCount = calls
        /\ pc = "waiting" => (calls > max_retries /\ SleepCount = calls - 1)

C19_Witness ==
    /\ max_retries = 0
    /\ limit = NoLimit
    /\ AlwaysFailsRetryably
    /\ pc = "waiting"
    /\ calls = MaxAttempts
    /\ SleepCount = MaxMaxRetries

\* C20: a decorator constructed with an empty collection retry_on_exceptions
\* holds the same tuple as one constructed without the argument, (Exception,):
\* every exception the operation raises is retried, and with max_retries >= 1
\* an invocation that propagates the operation's exception has called it
\* max_retries times and propagates the exception of the last call.
C20_EmptyListIsDefault ==
    retry_arg = ListArg({}) =>
        /\ retry_on_exceptions = RetryOnExceptions(NoArg)
        /\ \A k \in ErrorKinds : IsInstance(k, retry_on_exceptions)
        /\ (pc = "failed" /\ error # CriticalBug /\ max_retries >= 1) =>
              /\ calls = max_retries
              /\ error = Raised(OutcomeAt(script, max_retries), max_retries)
              /\ SleepCount = max_retries - 1

C20_Witness ==
    /\ retry_arg = ListArg({})
    /\ max_retries = 3
    /\ pc = "failed"
    /\ calls = 3
    /\ error = Raised("FileNotFoundError", 3)
    /\ SleepCount = 2

====
